---- MODULE Spec2Model ----
(***************************************************************************)
(* A model of validator/main.py: the three prompt strategies, the judge    *)
(* client adapter LlmRagEvaluator.get_llm_response and the evaluator       *)
(* LlmRagEvaluator.validate.                                               *)
(*                                                                         *)
(* A Python str is a sequence of symbols.  A symbol is one character, or   *)
(* one chunk of a string literal of the source (a chunk stands for that    *)
(* exact text; white space inside a literal is collapsed).  The characters *)
(* the inputs are drawn from occur in no literal of the source, so that    *)
(* "contains" on symbols agrees with substring containment in Python.      *)
(* An optional value (None or a str) is a record, see None and Just.       *)
(***************************************************************************)
EXTENDS Naturals, Sequences, FiniteSets

VARIABLES
    self,               \* the evaluator's fields set by __init__
    args,               \* the arguments of this validate call: value, metadata
    call_kwargs,        \* the host framework's per-call kwargs (get_call_kwarg)
    environ,            \* os.environ
    pc,                 \* the position of validate
    user_input_message, \* local of validate
    reference_text,     \* local of validate
    value,              \* local of validate (the parameter, rebound at line 202)
    prompt,             \* local of validate
    llm_response,       \* local of validate
    result,             \* what validate returned
    raised,             \* what validate raised
    strategy_calls,     \* the calls made to generate_prompt, in order
    completion_calls,   \* the requests handed to litellm.completion, in order
    completion_result,  \* what litellm.completion did on the last request
    path                \* the positions validate went through, in order

vars == <<self, args, call_kwargs, environ, pc, user_input_message,
          reference_text, value, prompt, llm_response, result, raised,
          strategy_calls, completion_calls, completion_result, path>>

-----------------------------------------------------------------------------
(* Bounds *)

\* longest configured pass/fail token
MaxTokLen == 1
\* longest text of a metadata field or of the value under test
MaxTextLen == 1

\* the judge's raw text may carry one more character than a token
MaxRawLen == MaxTokLen + 1

-----------------------------------------------------------------------------
(* Strings *)

\* characters of tokens and of the judge's raw text: two letters, one of them
\* in both cases, and white space
Chars == {"a", "A", "b", " "}
\* characters of the question, the reference text and the answer; none of
\* them occurs in a prompt template
TextChars == {"z"}
\* the same for the specification of the prompt strategies: two characters
PromptChars == {"z", "Z"}

StrOver(cs, n) == UNION {[1..k -> cs] : k \in 0..n}

Tokens == StrOver(Chars, MaxTokLen)
RawTexts == StrOver(Chars, MaxRawLen)
Texts == StrOver(TextChars, MaxTextLen)
PromptTexts == StrOver(PromptChars, MaxTextLen)

None == [isNone |-> TRUE, str |-> <<>>]
Just(s) == [isNone |-> FALSE, str |-> s]
Optional(S) == {None} \cup {Just(s) : s \in S}

\* dict.get(key): None when the key is absent
Get(d, key) == IF key \in DOMAIN d THEN d[key] ELSE None

\* Python's truth value of None or a str: None and "" are falsy
Truthy(x) == ~x.isNone /\ x.str # <<>>

\* a or b
Or(a, b) == IF Truthy(a) THEN a ELSE b

\* s occurs in t as a contiguous run of symbols
Contains(t, s) ==
    \E i \in 0..Len(t) :
        /\ i + Len(s) <= Len(t)
        /\ \A j \in 1..Len(s) : t[i + j] = s[j]

IsSpace(c) == c = " "

LowerChar(c) == IF c = "A" THEN "a" ELSE c

\* str.lower()
Lower(s) == [i \in 1..Len(s) |-> LowerChar(s[i])]

RECURSIVE LStrip(_)
LStrip(s) == IF s # <<>> /\ IsSpace(Head(s)) THEN LStrip(Tail(s)) ELSE s

RECURSIVE RStrip(_)
RStrip(s) ==
    IF s # <<>> /\ IsSpace(s[Len(s)]) THEN RStrip(SubSeq(s, 1, Len(s) - 1)) ELSE s

\* str.strip()
Strip(s) == RStrip(LStrip(s))

-----------------------------------------------------------------------------
(* Prompt strategies *)

Strategies == {"ContextRelevancyPrompt", "HallucinationPrompt", "QACorrectnessPrompt"}

\* the response words a template offers, as they stand in it between double quotes
Quoted ==
    [relevant |-> "\"relevant\"", unrelated |-> "\"unrelated\"",
     factual |-> "\"factual\"", hallucinated |-> "\"hallucinated\"",
     correct |-> "\"correct\"", incorrect |-> "\"incorrect\""]

\* ContextRelevancyPrompt.generate_prompt: llm_response is not interpolated
ContextRelevancyPrompt(question, reference, answer) ==
    <<"You are comparing a reference text to a question and trying to determine if the reference text contains information relevant to answering the question. Here is the data: [BEGIN DATA] ************ [Question]: ">>
    \o question
    \o <<" ************ [Reference text]: ">>
    \o reference
    \o <<" ************ [END DATA] Compare the Question above to the Reference text. You must determine whether the Reference text contains information that can answer the Question. Please focus on whether the very specific question can be answered by the information in the Reference text. Your response must be single word, either ",
         Quoted.relevant, " or ", Quoted.unrelated,
         ", and should not contain any text or characters aside from that word. ",
         Quoted.unrelated,
         " means that the reference text does not contain an answer to the Question. ",
         Quoted.relevant,
         " means the reference text contains an answer to the Question.">>

\* HallucinationPrompt.generate_prompt
HallucinationPrompt(question, reference, answer) ==
    <<"In this task, you will be presented with a query, a reference text and an answer. The answer is generated to the question based on the reference text. The answer may contain false information. You must use the reference text to determine if the answer to the question contains false information, if the answer is a hallucination of facts. Your objective is to determine whether the answer text contains factual information and is not a hallucination. A 'hallucination' refers to an answer that is not based on the reference text or assumes information that is not available in the reference text. Your response should be a single word: either ",
      Quoted.factual, " or ", Quoted.hallucinated,
      ", and it should not include any other text or characters. ",
      Quoted.hallucinated,
      " indicates that the answer provides factually inaccurate information to the query based on the reference text. ",
      Quoted.factual,
      " indicates that the answer to the question is correct relative to the reference text, and does not contain made up information. Please read the query and reference text carefully before determining your response. [BEGIN DATA] ************ [Query]: ">>
    \o question
    \o <<" ************ [Reference text]: ">>
    \o reference
    \o <<" ************ [Answer]: ">>
    \o answer
    \o <<" ************ [END DATA] Is the answer above factual or hallucinated based on the query and reference text?">>

\* QACorrectnessPrompt with the [Answer] line of its template lost
QACorrectnessPromptNoAnswer(question, reference, answer) ==
    <<"You are given a question, an answer and reference text. You must determine whether the given answer correctly answers the question based on the reference text. Here is the data: [BEGIN DATA] ************ [Question]: ">>
    \o question
    \o <<" ************ [Reference]: ">>
    \o reference
    \o <<" ************ [END DATA] Your response must be a single word, either ",
         Quoted.correct, " or ", Quoted.incorrect,
         ", and should not contain any text or characters aside from that word. ",
         Quoted.correct,
         " means that the question is correctly and fully answered by the answer. ",
         Quoted.incorrect,
         " means that the question is not correctly or only partially answered by the answer.">>

\* QACorrectnessPrompt.generate_prompt
QACorrectnessPrompt(question, reference, answer) ==
    <<"You are given a question, an answer and reference text. You must determine whether the given answer correctly answers the question based on the reference text. Here is the data: [BEGIN DATA] ************ [Question]: ">>
    \o question
    \o <<" ************ [Reference]: ">>
    \o reference
    \o <<" ************ [Answer]: ">>
    \o answer
    \o <<" [END DATA] Your response must be a single word, either ",
         Quoted.correct, " or ", Quoted.incorrect,
         ", and should not contain any text or characters aside from that word. ",
         Quoted.correct,
         " means that the question is correctly and fully answered by the answer. ",
         Quoted.incorrect,
         " means that the question is not correctly or only partially answered by the answer.">>

\* the dispatch of generate_prompt on the configured strategy object
generate_prompt(strategy, question, reference, answer) ==
    CASE strategy = "ContextRelevancyPrompt" ->
            ContextRelevancyPrompt(question, reference, answer)
      [] strategy = "HallucinationPrompt" ->
            HallucinationPrompt(question, reference, answer)
      [] strategy = "QACorrectnessPrompt" ->
            QACorrectnessPrompt(question, reference, answer)

-----------------------------------------------------------------------------
(* Results and errors *)

NoResult == [outcome |-> "none", error_message |-> <<>>]
PassResult == [outcome |-> "pass", error_message |-> <<>>]
FailResult(message) == [outcome |-> "fail", error_message |-> message]

\* an exception: its class, its message and the __cause__ set by "raise ... from"
NoError == [type |-> "", message |-> <<>>, cause |-> ""]
Error(type, message, cause) == [type |-> type, message |-> message, cause |-> cause]

-----------------------------------------------------------------------------
(* Judge client adapter: get_llm_response *)

\* litellm.get_llm_provider on the model names used here: the provider, or ""
\* for a name it does not know (it raises)
ProviderOf ==
    [m \in {"gpt-3.5-turbo", "command-r", "no-such-model"} |->
        CASE m = "gpt-3.5-turbo" -> "openai"
          [] m = "command-r" -> "cohere"
          [] m = "no-such-model" -> ""]

Models == DOMAIN ProviderOf

\* AuthKwargs with the operands of "or" exchanged: the environment first
AuthKwargsEnvFirst(provider, kw, env) ==
    [k \in (IF provider = "openai" THEN {"api_key"} ELSE {}) |->
        Or(Get(env, "OPENAI_API_KEY"), Get(kw, "api_key"))]

\* kwargs: the api_key entry exists for provider openai only
AuthKwargs(provider, kw, env) ==
    [k \in (IF provider = "openai" THEN {"api_key"} ELSE {}) |->
        Or(Get(kw, "api_key"), Get(env, "OPENAI_API_KEY"))]

\* the arguments of completion(model=..., messages=..., **kwargs)
CompletionRequest(evaluator, p, kw, env) ==
    [model |-> evaluator.llm_callable,
     messages |-> <<[content |-> p, role |-> "user"]>>,
     kwargs |-> AuthKwargs(ProviderOf[evaluator.llm_callable], kw, env)]

\* what one call of completion can do: raise, or return a response whose
\* choices are empty or hold one message with a content that is None or a str
NoCompletion == [called |-> FALSE, throws |-> FALSE, exc |-> "", choices |-> <<>>]
CompletionOutcomes ==
    {[called |-> TRUE, throws |-> TRUE, exc |-> "APIConnectionError", choices |-> <<>>]}
    \cup {[called |-> TRUE, throws |-> FALSE, exc |-> "", choices |-> cs] :
            cs \in {<<>>} \cup {<<c>> : c \in Optional(RawTexts)}}

\* the exception raised inside the try block for outcome o, "" when none is
ExceptionIn(o) ==
    IF o.throws THEN o.exc
    ELSE IF o.choices = <<>> THEN "IndexError"
    ELSE IF o.choices[1].isNone THEN "AttributeError"
    ELSE ""

\* Normalize without .lower()
NormalizeNoLower(s) == Strip(s)

\* response.strip().lower()
Normalize(s) == Lower(Strip(s))

\* WrapError without "from e": the cause is lost
WrapErrorNoCause(e) ==
    Error("RuntimeError", <<"Error getting response from the LLM: ", e>>, "")

\* the except clause: every exception of the try block is re-raised wrapped
WrapError(e) ==
    Error("RuntimeError", <<"Error getting response from the LLM: ", e>>, e)

\* the try block of get_llm_response on outcome o of the completion call
TryCompletion(o) ==
    IF ExceptionIn(o) # ""
    THEN [raised |-> WrapError(ExceptionIn(o)), returned |-> <<>>]
    ELSE [raised |-> NoError, returned |-> Normalize(o.choices[1].str)]

-----------------------------------------------------------------------------
(* Evaluator: LlmRagEvaluator *)

\* __init__: the four fields the evaluator keeps
Evaluator(generator, fail_response, pass_response, llm_callable) ==
    [prompt_generator |-> generator, fail_response |-> fail_response,
     pass_response |-> pass_response, llm_callable |-> llm_callable]

\* all dicts with keys among keys and values in vals
Dicts(keys, vals) == UNION {[K -> vals] : K \in SUBSET keys}

CompleteMetadata ==
    [k \in {"user_message", "context"} |-> Just(<<"z">>)]

\* the configured tokens vary: any pass token with any fail token
TokenScenarios ==
    [self : {Evaluator("HallucinationPrompt", f, p, "gpt-3.5-turbo") :
                f \in Tokens, p \in Tokens},
     args : {[value |-> Just(<<>>), metadata |-> CompleteMetadata]},
     call_kwargs : {[k \in {} |-> None]},
     environ : {[k \in {"OPENAI_API_KEY"} |-> Just(<<"sk-env">>)]}]

\* the call's arguments and the strategy vary: any metadata, with the tokens
\* distinct or identical
InputScenarios ==
    [self : {Evaluator(g, f, <<"a">>, "command-r") :
                g \in Strategies, f \in {<<"a">>, <<"b">>}},
     args : [value : {Just(t) : t \in Texts},
             metadata : Dicts({"user_message", "context", "llm_response"},
                              Optional(Texts))],
     call_kwargs : {[k \in {} |-> None]},
     environ : {[k \in {} |-> None]}]

\* the judge model and the credentials vary
AuthScenarios ==
    [self : {Evaluator("QACorrectnessPrompt", <<"b">>, <<"a">>, m) : m \in Models},
     args : {[value |-> Just(<<"z">>), metadata |-> CompleteMetadata]},
     call_kwargs : Dicts({"api_key"}, Optional({<<>>, <<"sk-call">>})),
     environ : Dicts({"OPENAI_API_KEY"}, {Just(<<>>), Just(<<"sk-env">>)})]

Scenarios == TokenScenarios \cup InputScenarios \cup AuthScenarios

\* the three texts handed to the strategy vary over two characters
PromptScenarios ==
    [self : {Evaluator(g, <<"b">>, <<"a">>, "gpt-3.5-turbo") : g \in Strategies},
     args : [value : {Just(t) : t \in PromptTexts},
             metadata : {m \in Dicts({"user_message", "context", "llm_response"},
                                      {Just(t) : t \in PromptTexts}) :
                            {"user_message", "context"} \subseteq DOMAIN m}],
     call_kwargs : {[k \in {} |-> None]},
     environ : {[k \in {} |-> None]}]

\* a constructed evaluator and the entry of one validate(value, metadata) call
InitFrom(scenarios) ==
    /\ \E sc \in scenarios :
        /\ self = sc.self
        /\ args = sc.args
        /\ call_kwargs = sc.call_kwargs
        /\ environ = sc.environ
        /\ value = sc.args.value
    /\ pc = "Start"
    /\ user_input_message = None
    /\ reference_text = None
    /\ prompt = <<>>
    /\ llm_response = <<>>
    /\ result = NoResult
    /\ raised = NoError
    /\ strategy_calls = <<>>
    /\ completion_calls = <<>>
    /\ completion_result = NoCompletion
    /\ path = <<"Start">>

Init == InitFrom(Scenarios)

\* validate raises e: the call ends, nothing is returned
Raise(e) ==
    /\ raised' = e
    /\ pc' = "Raised"
    /\ path' = Append(path, "Raised")

Goto(position) ==
    /\ pc' = position
    /\ path' = Append(path, position)

MissingUserMessage ==
    Error("RuntimeError",
          <<"original_prompt missing from value. Please provide the original prompt.">>, "")

MissingContext ==
    Error("RuntimeError",
          <<"'reference_text' missing from value. Please provide the reference text.">>, "")

\* MissingField with the two checks exchanged: context first
MissingFieldContextFirst(metadata) ==
    IF Get(metadata, "context").isNone THEN MissingContext
    ELSE IF Get(metadata, "user_message").isNone THEN MissingUserMessage
    ELSE NoError

\* the error of step 1 for this metadata, NoError when both fields are there
MissingField(metadata) ==
    IF Get(metadata, "user_message").isNone THEN MissingUserMessage
    ELSE IF Get(metadata, "context").isNone THEN MissingContext
    ELSE NoError

\* step 1 of validate: the two required metadata fields, user_message first
ExtractFields ==
    /\ pc = "Start"
    /\ IF MissingField(args.metadata) # NoError
       THEN /\ Raise(MissingField(args.metadata))
            /\ UNCHANGED <<user_input_message, reference_text>>
       ELSE /\ Goto("FieldsExtracted")
            /\ user_input_message' = Get(args.metadata, "user_message")
            /\ reference_text' = Get(args.metadata, "context")
            /\ UNCHANGED raised
    /\ UNCHANGED <<self, args, call_kwargs, environ, value, prompt, llm_response,
                   result, strategy_calls, completion_calls, completion_result>>

\* OverrideValue testing the truth value ("if metadata.get(...):") instead of
\* "is not None"
OverrideValueTruthy(v, metadata) ==
    IF Truthy(Get(metadata, "llm_response")) THEN Get(metadata, "llm_response") ELSE v

\* the answer under test: metadata's llm_response unless it is None
OverrideValue(v, metadata) ==
    IF ~Get(metadata, "llm_response").isNone THEN Get(metadata, "llm_response") ELSE v

\* the override of the value, then step 2 of validate: the prompt
BuildPrompt ==
    /\ pc = "FieldsExtracted"
    /\ LET v == OverrideValue(value, args.metadata)
       IN  /\ value' = v
           /\ prompt' = generate_prompt(self.prompt_generator, user_input_message.str,
                                        reference_text.str, v.str)
           /\ strategy_calls' =
                Append(strategy_calls,
                       [user_input_message |-> user_input_message.str,
                        reference_text |-> reference_text.str,
                        llm_response |-> v.str])
    /\ Goto("PromptBuilt")
    /\ UNCHANGED <<self, args, call_kwargs, environ, user_input_message,
                   reference_text, llm_response, result, raised, completion_calls,
                   completion_result>>

\* get_llm_provider does not know the model: its error leaves validate as it is
UnknownProvider == Error("BadRequestError", <<"LLM Provider NOT provided.">>, "")

\* InvokeJudge with one retry: a first failed completion call is tried again
InvokeJudgeRetry ==
    /\ pc = "PromptBuilt"
    /\ IF ProviderOf[self.llm_callable] = ""
       THEN /\ Raise(UnknownProvider)
            /\ UNCHANGED <<llm_response, completion_calls, completion_result>>
       ELSE \E o \in CompletionOutcomes :
            LET r == TryCompletion(o)
            IN  /\ completion_calls' =
                     Append(completion_calls,
                            CompletionRequest(self, prompt, call_kwargs, environ))
                /\ completion_result' = o
                /\ IF r.raised # NoError /\ completion_calls = <<>>
                   THEN UNCHANGED <<pc, path, raised, llm_response>>
                   ELSE IF r.raised # NoError
                   THEN /\ Raise(r.raised)
                        /\ UNCHANGED llm_response
                   ELSE /\ Goto("JudgeInvoked")
                        /\ llm_response' = r.returned
                        /\ UNCHANGED raised
    /\ UNCHANGED <<self, args, call_kwargs, environ, user_input_message,
                   reference_text, value, prompt, result, strategy_calls>>

\* step 3 of validate: get_llm_response(prompt), one completion call
InvokeJudge ==
    /\ pc = "PromptBuilt"
    /\ IF ProviderOf[self.llm_callable] = ""
       THEN /\ Raise(UnknownProvider)
            /\ UNCHANGED <<llm_response, completion_calls, completion_result>>
       ELSE \E o \in CompletionOutcomes :
            LET r == TryCompletion(o)
            IN  /\ completion_calls' =
                     Append(completion_calls,
                            CompletionRequest(self, prompt, call_kwargs, environ))
                /\ completion_result' = o
                /\ IF r.raised # NoError
                   THEN /\ Raise(r.raised)
                        /\ UNCHANGED llm_response
                   ELSE /\ Goto("JudgeInvoked")
                        /\ llm_response' = r.returned
                        /\ UNCHANGED raised
    /\ UNCHANGED <<self, args, call_kwargs, environ, user_input_message,
                   reference_text, value, prompt, result, strategy_calls>>

\* FailMessage without the token
FailMessageNoToken(fail_response) ==
    <<"The LLM says ", ". The validation failed.">>

FailMessage(fail_response) ==
    <<"The LLM says ">> \o fail_response \o <<". The validation failed.">>

InvalidAnswerMessage ==
    <<"The LLM returned an invalid answer. Failing the validation...">>

\* Verdict with the two comparisons exchanged: the pass token first
VerdictPassFirst(evaluator, response) ==
    IF response = evaluator.pass_response
    THEN PassResult
    ELSE IF response = evaluator.fail_response
    THEN FailResult(FailMessage(evaluator.fail_response))
    ELSE FailResult(InvalidAnswerMessage)

\* Verdict matching a token anywhere in the response ("in" instead of "==")
VerdictContains(evaluator, response) ==
    IF Contains(response, evaluator.fail_response)
    THEN FailResult(FailMessage(evaluator.fail_response))
    ELSE IF Contains(response, evaluator.pass_response)
    THEN PassResult
    ELSE FailResult(InvalidAnswerMessage)

\* step 4 of validate: the fail token first, then the pass token
Verdict(evaluator, response) ==
    IF response = evaluator.fail_response
    THEN FailResult(FailMessage(evaluator.fail_response))
    ELSE IF response = evaluator.pass_response
    THEN PassResult
    ELSE FailResult(InvalidAnswerMessage)

CheckResponse ==
    /\ pc = "JudgeInvoked"
    /\ result' = Verdict(self, llm_response)
    /\ Goto("Verdict")
    /\ UNCHANGED <<self, args, call_kwargs, environ, user_input_message,
                   reference_text, value, prompt, llm_response, raised,
                   strategy_calls, completion_calls, completion_result>>

Next == ExtractFields \/ BuildPrompt \/ InvokeJudge \/ CheckResponse

Spec == Init /\ [][Next]_vars

\* the prompt strategies alone: validate up to the prompt, on richer texts
PromptInit == InitFrom(PromptScenarios)
PromptNext == ExtractFields \/ BuildPrompt
PromptSpec == PromptInit /\ [][PromptNext]_vars

-----------------------------------------------------------------------------
(* Properties *)

\* metadata holds both required fields (present and not None)
HasRequiredFields ==
    /\ ~Get(args.metadata, "user_message").isNone
    /\ ~Get(args.metadata, "context").isNone

\* the judge returned a text: the raw content of the first choice
JudgeAnswered ==
    /\ completion_result.called
    /\ ~completion_result.throws
    /\ completion_result.choices # <<>>
    /\ ~completion_result.choices[1].isNone

RawText == completion_result.choices[1].str

\* a and b are equal up to letter case and surrounding white space
SameUpToCaseAndSpace(a, b) == Strip(Lower(a)) = Strip(Lower(b))

\* t is lower case and has no surrounding white space
IsNormalized(t) == Strip(Lower(t)) = t

\* C1, as stated: for any pass token and any fail token different from it,
\* a raw judge text equal to the pass token up to letter case and surrounding
\* white space makes validate return Pass.
C1_Original ==
    (/\ pc = "Verdict"
     /\ HasRequiredFields
     /\ self.pass_response # self.fail_response
     /\ SameUpToCaseAndSpace(RawText, self.pass_response))
    => result = PassResult

\* C1, amended: for any pass token that is itself lower case without
\* surrounding white space, and any fail token different from it, a raw judge
\* text equal to the pass token up to letter case and surrounding white space
\* makes validate return Pass, never a Fail.
C1_PassOnNormalizedPassToken ==
    (/\ pc = "Verdict"
     /\ HasRequiredFields
     /\ IsNormalized(self.pass_response)
     /\ self.pass_response # self.fail_response
     /\ SameUpToCaseAndSpace(RawText, self.pass_response))
    => result = PassResult

C1_Witness ==
    /\ pc = "Verdict"
    /\ HasRequiredFields
    /\ IsNormalized(self.pass_response)
    /\ self.pass_response # self.fail_response
    /\ RawText # self.pass_response
    /\ SameUpToCaseAndSpace(RawText, self.pass_response)
    /\ result = PassResult

\* C2: when the normalized judge text equals the configured fail token,
\* validate returns Fail with the message "The LLM says <failToken>. The
\* validation failed.", which contains the token, and nothing is raised.
C2_FailOnFailToken ==
    (/\ pc = "Verdict"
     /\ HasRequiredFields
     /\ llm_response = self.fail_response)
    => /\ result.outcome = "fail"
       /\ result.error_message =
            <<"The LLM says ">> \o self.fail_response \o <<". The validation failed.">>
       /\ Contains(result.error_message, self.fail_response)
       /\ raised = NoError

C2_Witness ==
    /\ pc = "Verdict"
    /\ HasRequiredFields
    /\ llm_response = self.fail_response
    /\ self.fail_response # <<>>
    /\ RawText # self.fail_response
    /\ result.outcome = "fail"

\* C3: a normalized judge text that equals neither token (the empty string
\* and a text that merely contains a token included) makes validate return
\* Fail with the generic "invalid answer" message; never Pass, nothing raised.
C3_FailOnOtherText ==
    (/\ pc = "Verdict"
     /\ llm_response # self.fail_response
     /\ llm_response # self.pass_response)
    => /\ result =
            FailResult(<<"The LLM returned an invalid answer. Failing the validation...">>)
       /\ raised = NoError

C3_Witness ==
    /\ pc = "Verdict"
    /\ llm_response # self.fail_response
    /\ llm_response # self.pass_response
    /\ self.pass_response # <<>>
    /\ Contains(llm_response, self.pass_response)
    /\ result.outcome = "fail"

\* C4: when metadata lacks user_message or context (absent or None), validate
\* ends in a raised error and not in a verdict, the prompt strategy and the
\* judge client have not been invoked, and user_message is checked first.
C4_MissingFieldRaises ==
    ~HasRequiredFields
    => /\ result = NoResult
       /\ strategy_calls = <<>>
       /\ completion_calls = <<>>
       /\ ~completion_result.called
       /\ pc \in {"Start", "Raised"}
       /\ path \in {<<"Start">>, <<"Start", "Raised">>}
       /\ ENABLED Next <=> pc = "Start"
       /\ pc = "Raised" =>
            /\ raised.type = "RuntimeError"
            /\ raised.message =
                 IF Get(args.metadata, "user_message").isNone
                 THEN <<"original_prompt missing from value. Please provide the original prompt.">>
                 ELSE <<"'reference_text' missing from value. Please provide the reference text.">>

C4_Witness ==
    /\ pc = "Raised"
    /\ "user_message" \notin DOMAIN args.metadata
    /\ "context" \in DOMAIN args.metadata
    /\ args.metadata["context"].isNone
    /\ raised.message =
         <<"original_prompt missing from value. Please provide the original prompt.">>

\* C5: the answer handed to the prompt strategy is metadata's llm_response
\* whenever that is there and not None (the empty string included), and the
\* passed-in value otherwise; the question and the reference text handed over
\* are metadata's user_message and context.
C5_OverrideAnswer ==
    strategy_calls # <<>>
    => LET call == strategy_calls[1]
           md == args.metadata
       IN  /\ call.llm_response =
                IF "llm_response" \in DOMAIN md /\ ~md["llm_response"].isNone
                THEN md["llm_response"].str
                ELSE args.value.str
           /\ call.user_input_message = md["user_message"].str
           /\ call.reference_text = md["context"].str

C5_Witness ==
    /\ strategy_calls # <<>>
    /\ "llm_response" \in DOMAIN args.metadata
    /\ args.metadata["llm_response"] = Just(<<>>)
    /\ args.value # Just(<<>>)
    /\ strategy_calls[1].llm_response = <<>>

\* the two response words of each strategy
Vocabulary ==
    [ContextRelevancyPrompt |-> {"relevant", "unrelated"},
     HallucinationPrompt |-> {"factual", "hallucinated"},
     QACorrectnessPrompt |-> {"correct", "incorrect"}]

\* the response words p offers between double quotes
OfferedWords(p) == {w \in DOMAIN Quoted : Contains(p, <<Quoted[w]>>)}

\* C6, as stated: for each of the three strategies the prompt contains the
\* question, the reference text and the candidate answer verbatim and names
\* exactly the strategy's two response words.
C6_Original ==
    strategy_calls # <<>>
    => LET call == strategy_calls[1]
       IN  /\ Contains(prompt, call.user_input_message)
           /\ Contains(prompt, call.reference_text)
           /\ Contains(prompt, call.llm_response)
           /\ OfferedWords(prompt) = Vocabulary[self.prompt_generator]

\* C6, amended: for each of the three strategies the prompt contains the
\* question and the reference text verbatim and names exactly the strategy's
\* two response words; the Hallucination and QACorrectness prompts contain
\* the candidate answer verbatim too, while the ContextRelevancy prompt does
\* not interpolate it: it is the same for every candidate answer.
C6_PromptContents ==
    strategy_calls # <<>>
    => LET call == strategy_calls[1]
           g == self.prompt_generator
       IN  /\ Contains(prompt, call.user_input_message)
           /\ Contains(prompt, call.reference_text)
           /\ g # "ContextRelevancyPrompt" => Contains(prompt, call.llm_response)
           /\ g = "ContextRelevancyPrompt" =>
                \A a \in PromptTexts :
                    prompt = generate_prompt(g, call.user_input_message,
                                             call.reference_text, a)
           /\ OfferedWords(prompt) = Vocabulary[g]

C6_Witness ==
    /\ strategy_calls # <<>>
    /\ self.prompt_generator = "ContextRelevancyPrompt"
    /\ strategy_calls[1].llm_response # <<>>
    /\ ~Contains(prompt, strategy_calls[1].llm_response)
    /\ Contains(prompt, strategy_calls[1].user_input_message)

\* the completion call was attempted and failed
JudgeCallFailed ==
    /\ completion_result.called
    /\ \/ completion_result.throws
       \/ completion_result.choices = <<>>
       \/ completion_result.choices[1].isNone

\* C7: when the completion call throws, the response has no first choice or
\* its content cannot be normalized, validate ends with the one RuntimeError
\* of get_llm_response, which carries the original exception as its cause;
\* no verdict is returned and completion has been attempted exactly once.
C7_JudgeFailureWrapped ==
    JudgeCallFailed
    => /\ pc = "Raised"
       /\ raised.type = "RuntimeError"
       /\ raised.cause =
            IF completion_result.throws THEN completion_result.exc
            ELSE IF completion_result.choices = <<>> THEN "IndexError"
            ELSE "AttributeError"
       /\ raised.cause # ""
       /\ raised.message = <<"Error getting response from the LLM: ", raised.cause>>
       /\ result = NoResult
       /\ Len(completion_calls) = 1
       /\ ~ENABLED Next

C7_Witness ==
    /\ JudgeCallFailed
    /\ ~completion_result.throws
    /\ completion_result.choices = <<>>
    /\ raised.cause = "IndexError"
    /\ Len(completion_calls) = 1

LinearOrder == <<"Start", "FieldsExtracted", "PromptBuilt", "JudgeInvoked", "Verdict">>

IsPrefix(p, q) == Len(p) <= Len(q) /\ p = SubSeq(q, 1, Len(p))

\* C8: a validate call ends in exactly one of Pass, Fail and a raised error;
\* it goes through Start, FieldsExtracted, PromptBuilt, JudgeInvoked, Verdict
\* in this order, no step repeated or skipped; a verdict is there only after
\* the prompt strategy was invoked once and then the judge once, and there is
\* no verdict on a path that raised.
C8_LinearOneOutcome ==
    /\ result # NoResult <=> pc = "Verdict"
    /\ raised # NoError <=> pc = "Raised"
    /\ pc \notin {"Verdict", "Raised"} => ENABLED Next
    /\ pc \in {"Verdict", "Raised"} => ~ENABLED Next
    /\ path[Len(path)] = pc
    /\ \/ IsPrefix(path, LinearOrder)
       \/ /\ pc = "Raised"
          /\ Len(path) <= Len(LinearOrder) - 1
          /\ IsPrefix(SubSeq(path, 1, Len(path) - 1), LinearOrder)
    /\ Len(completion_calls) <= Len(strategy_calls)
    /\ completion_result.called =>
         /\ pc \in {"JudgeInvoked", "Verdict", "Raised"}
         /\ Len(completion_calls) = 1
    /\ result # NoResult =>
         /\ result.outcome \in {"pass", "fail"}
         /\ raised = NoError
         /\ path = LinearOrder
         /\ Len(strategy_calls) = 1
         /\ Len(completion_calls) = 1
         /\ JudgeAnswered

C8_Witness ==
    /\ pc = "Verdict"
    /\ path = LinearOrder
    /\ result = PassResult
    /\ Len(strategy_calls) = 1
    /\ Len(completion_calls) = 1

\* C9: with identical pass and fail tokens validate never returns Pass: every
\* call that does not raise returns Fail.
C9_IdenticalTokensFail ==
    self.pass_response = self.fail_response
    => /\ result.outcome # "pass"
       /\ pc = "Verdict" => result.outcome = "fail"

C9_Witness ==
    /\ pc = "Verdict"
    /\ self.pass_response = self.fail_response
    /\ llm_response = self.pass_response
    /\ result.outcome = "fail"

\* the per-call override credential, None when none is supplied
OverrideKey == Get(call_kwargs, "api_key")

\* C10, as stated: the completion request carries an api_key exactly when the
\* provider is openai; it is the per-call override whenever one is supplied,
\* and the environment's OPENAI_API_KEY only when none is supplied.
C10_Original ==
    completion_calls # <<>>
    => LET kw == completion_calls[1].kwargs
       IN  /\ "api_key" \in DOMAIN kw <=> ProviderOf[self.llm_callable] = "openai"
           /\ "api_key" \in DOMAIN kw =>
                kw["api_key"] =
                    IF ~OverrideKey.isNone THEN OverrideKey
                    ELSE Get(environ, "OPENAI_API_KEY")

\* C10, amended: the completion request carries an api_key exactly when the
\* provider is openai; it is the per-call override whenever a non-empty one is
\* supplied, and the environment's OPENAI_API_KEY when no override is supplied
\* or the supplied one is the empty string; for every other provider the
\* request carries no api_key.
C10_ApiKey ==
    completion_calls # <<>>
    => LET kw == completion_calls[1].kwargs
       IN  /\ "api_key" \in DOMAIN kw <=> ProviderOf[self.llm_callable] = "openai"
           /\ DOMAIN kw \subseteq {"api_key"}
           /\ "api_key" \in DOMAIN kw =>
                kw["api_key"] =
                    IF ~OverrideKey.isNone /\ OverrideKey.str # <<>> THEN OverrideKey
                    ELSE Get(environ, "OPENAI_API_KEY")

C10_Witness ==
    /\ completion_calls # <<>>
    /\ "api_key" \in DOMAIN call_kwargs
    /\ OverrideKey = Just(<<>>)
    /\ "api_key" \in DOMAIN completion_calls[1].kwargs
    /\ completion_calls[1].kwargs["api_key"] = Just(<<"sk-env">>)

====
